---- MODULE Spec2Model ----
(***************************************************************************)
(* Model of src/app.ts: the request/connection admission pipeline of the   *)
(* chat backend.                                                           *)
(*                                                                         *)
(* The Express application is a stack of layers registered in source       *)
(* order; a request walks the stack from the top, the rate limiter counts  *)
(* it per client key in a fixed window, route handlers answer it or        *)
(* forward an error, and the last layer turns errors into responses.  The  *)
(* realtime hub shares the listener: it sets up sessions and keeps them    *)
(* alive with pings.  The process evaluates the module top to bottom,      *)
(* listens, and runs until it is told to stop.                             *)
(*                                                                         *)
(* Six specifications look at it:                                          *)
(*   Spec          the stack as built by module evaluation, every route    *)
(*                 and every handler outcome, one request at a time;       *)
(*   SpecLimiter   the limiter under concurrent requests and passing time; *)
(*   SpecSkew      the limiter under a wall clock that is also set back;   *)
(*   SpecShared    the limiter under clients with no resolvable address;   *)
(*   SpecLife      the process from start to exit, with the database       *)
(*                 collaborator;                                           *)
(*   SpecRealtime  the hub's handshake and heartbeat.                      *)
(***************************************************************************)
EXTENDS Integers, Sequences, FiniteSets, Bags, TLC

\* ------------------------------------------------------------------ bounds

\* Requests that may be in flight at the same time.
MaxInFlight == 2

\* Realtime sessions that may be open at the same time.
MaxSessions == 2

\* The limiter option `max` (app.ts:37 configures 200).  The limit is a
\* parameter of the algorithm; the model runs it with a small limit so that
\* a window fills up and overflows within the explored runs.
max == 2

\* A key's hit counter is unbounded in the store; arrivals for a key stop
\* once its counter is this far above max.
MaxOver == 1

\* The clock advances by TickMs at a time.
TickMs == 30000

\* ------------------------------------------------------- program constants

\* rateLimit({ windowMs: 1 * 60 * 1000, ... })
windowMs == 60000

\* new SocketServer(httpServer, { pingTimeout: 60000, ... })
pingTimeout == 60000

\* The hub's ping interval; app.ts leaves socket.io's default in place.
pingInterval == 25000

\* The clock stops once a whole window has gone by since the start.
Horizon == windowMs

\* ----------------------------------------------------------------- inputs

NULL == "null"

\* What request-ip can see of the client: an address, nothing, or a text that
\* is no address (what a proxy forwards for a client it does not know).
Remotes == {"10.0.0.1", NULL, "unknown"}

\* The texts that are IP addresses.
Addresses == {"10.0.0.1"}

\* The requests the environment sends, each a method and a path.  A path is
\* its sequence of segments: "/" is << >>, "/api/chat/1" is
\* <<"api", "chat", "1">>.
Inputs ==
  { <<"GET", << >> >>, <<"POST", << >> >>, <<"GET", <<"health">> >>,
    <<"POST", <<"auth", "login">> >>, <<"GET", <<"api", "chat", "1">> >>,
    <<"POST", <<"api", "messages", "1">> >>, <<"GET", <<"public", "a.png">> >>,
    <<"GET", <<"public", "missing.png">> >>, <<"GET", <<"unknown", "path">> >> }

\* Files under the static root.
PublicFiles == { <<"a.png">> }

\* config.environment
Environments == {"development", "production", ""}

\* config.corsUrl, the one allowed origin
corsUrl == "https://chat.example"

\* The Origin header of a realtime connection attempt.
Origins == {corsUrl, "https://evil.example"}

\* The transports the hub accepts.
Transports == {"polling", "websocket"}

VARIABLES
  environment,  \* config.environment, fixed for the life of the process
  boot,         \* how far the process has got: module evaluation, listening, exited
  db,           \* the database collaborator's initialization
  stack,        \* the layers registered on `app`, in registration order
  now,          \* Date.now()
  store,        \* the limiter's store: key -> RateWindow record
  admitted,     \* history: <<key, resetTime>> -> requests admitted in that window
  reqs,         \* the requests in flight, a bag of request records
  last,         \* the exchange the latest step completed, if it completed one
  io,           \* app.get("io"): the hub handle on the shared application state
  sessions      \* the hub's sessions, by session slot

vars == <<environment, boot, db, stack, now, store, admitted, reqs, last, io, sessions>>

\* The state of the process, and the state of the HTTP side.
procVars == <<environment, boot, db, stack>>
httpVars == <<now, store, admitted, reqs, last>>
rtVars == <<io, sessions>>

\* ----------------------------------------------------------------- errors

ErrorTypes ==
  {"BAD_REQUEST", "UNAUTHORIZED", "FORBIDDEN", "NOT_FOUND", "RATE_LIMIT", "INTERNAL"}

NoErr == [cls |-> "none", type |-> "", message |-> << >>]

\* An error is its class, its type tag (ApiError only) and its message; a
\* message is the sequence of the pieces it is put together from.
ApiErr(t, m) == [cls |-> "ApiError", type |-> t, message |-> m]

PlainError(m) == [cls |-> "Error", type |-> "", message |-> m]

\* new RateLimitError(message)
RateLimitError(m) == ApiErr("RATE_LIMIT", m)

\* new InternalError(): the default, generic message
InternalError == ApiErr("INTERNAL", <<"Internal error">>)

\* err.stack: the header line with the message, then the frames
StackOf(e) == <<"Error: ">> \o e.message \o <<"\n    at <frames>">>

\* The status paired with each kind.
StatusOf(t) ==
  CASE t = "BAD_REQUEST" -> 400
    [] t = "UNAUTHORIZED" -> 401
    [] t = "FORBIDDEN" -> 403
    [] t = "NOT_FOUND" -> 404
    [] t = "RATE_LIMIT" -> 429
    [] OTHER -> 500

NoResp == [status |-> 0, kind |-> "", body |-> << >>]

\* ApiError.handle(err, res): the envelope {kind, message} under the status
\* of the kind.
ApiErrorHandle(e) == [status |-> StatusOf(e.type), kind |-> e.type, body |-> e.message]

\* Whether text `hay` contains text `needle`.
Contains(hay, needle) ==
  \E i \in 1..(Len(hay) - Len(needle) + 1) :
    SubSeq(hay, i, i + Len(needle) - 1) = needle

\* --------------------------------------------------------------- requests

Idle ==
  [pc |-> "idle", method |-> "", path |-> << >>, remote |-> NULL, clientIp |-> NULL,
   idx |-> 0, totalHits |-> 0, win |-> 0, err |-> NoErr, trace |-> << >>,
   resp |-> NoResp, log |-> << >>]

NewRequest(m, p, a) == [Idle EXCEPT !.pc = "recv", !.method = m, !.path = p, !.remote = a]

\* req.originalUrl
OriginalUrl(q) == q.path

\* requestIp.getClientIp(req): the address seen of the client when it is an
\* IP address, null otherwise.
GetClientIp(q) == IF q.remote \in Addresses THEN q.remote ELSE NULL

\* The key is taken from the address seen, whatever it is.
KeyGeneratorPerRemote(q) == q.remote

\* keyGenerator: (req) => requestIp.getClientIp(req) || ""
KeyGenerator(q) == IF GetClientIp(q) = NULL THEN "" ELSE GetClientIp(q)

Keys == { KeyGenerator([Idle EXCEPT !.remote = a]) : a \in Remotes }

\* One client for each key.
Callers == {"10.0.0.1", NULL}

\* The clients whose IP address cannot be resolved.
Unresolved == { a \in Remotes : GetClientIp([Idle EXCEPT !.remote = a]) = NULL }

\* ------------------------------------------------------------------ stack

Route(n, m, p) == [name |-> n, kind |-> "route", method |-> m, path |-> p]
Use(n, p) == [name |-> n, kind |-> "use", method |-> "", path |-> p]
ErrorLayer(n) == [name |-> n, kind |-> "error", method |-> "", path |-> << >>]

\* app.get("/", ...)
RootLayers == << Route("root", "GET", << >>) >>

\* app.use(requestIp.mw()); app.use(limiter)
LimiterLayers == << Use("requestIp", << >>), Use("limiter", << >>) >>

\* express.json, express.urlencoded, cors, morgan, cookieParser
MiddlewareLayers ==
  << Use("json", << >>), Use("urlencoded", << >>), Use("cors", << >>),
     Use("morgan", << >>), Use("cookieParser", << >>) >>

\* /health, the three routers and the static files
RouteLayers ==
  << Route("health", "GET", <<"health">>), Use("auth", <<"auth">>),
     Use("chat", <<"api", "chat">>), Use("messages", <<"api", "messages">>),
     Use("static", <<"public">>) >>

\* app.use((err, req, res, next) => ...)
ErrorLayers == << ErrorLayer("error") >>

\* Layers that do their work and call next() at once.
Transparent == {"json", "urlencoded", "cors", "morgan", "cookieParser"}

\* The feature routers, handled outside this file.
Routers == {"auth", "chat", "messages"}

IsPrefix(p, s) == Len(p) <= Len(s) /\ SubSeq(s, 1, Len(p)) = p

\* An error is offered to every layer, as a request is.
MatchErrorAnywhere(l, q) ==
  CASE l.kind = "error" -> q.err.cls # "none"
    [] l.kind = "route" -> l.method = q.method /\ l.path = q.path
    [] OTHER -> IsPrefix(l.path, q.path)

\* Whether layer l takes request q: an error goes to error layers only, a
\* route needs its method and its exact path, a mount needs its prefix.
Match(l, q) ==
  IF q.err.cls # "none" THEN l.kind = "error"
  ELSE CASE l.kind = "error" -> FALSE
         [] l.kind = "route" -> l.method = q.method /\ l.path = q.path
         [] OTHER -> IsPrefix(l.path, q.path)

\* next(): the first layer at or after i that takes q; Len(stack) + 1 if none.
RECURSIVE NextLayer(_, _)
NextLayer(q, i) ==
  IF i > Len(stack) THEN i
  ELSE IF Match(stack[i], q) THEN i
  ELSE NextLayer(q, i + 1)

\* res.send / res.status(s).send
Send(q, r) == [q EXCEPT !.pc = "done", !.resp = r, !.trace = Append(@, "send")]

\* console.error(`500 - ${err.message} - ${req.originalUrl} - ${req.method} - ${req.ip}\n${err.stack}`)
LogLine(q) ==
  <<"500", " - ">> \o q.err.message \o <<" - ">> \o OriginalUrl(q) \o
  <<" - ", q.method, " - ", q.remote, "\n">> \o StackOf(q.err)

ConsoleError(q) == [q EXCEPT !.log = LogLine(q), !.trace = Append(@, "log")]

\* The raw stack goes out unless the mode is "production".
ErrorMiddlewareUnlessProduction(q) ==
  IF q.err.cls = "ApiError"
    THEN LET sent == Send(q, ApiErrorHandle(q.err)) IN
         IF q.err.type = "INTERNAL" THEN ConsoleError(sent) ELSE sent
    ELSE LET logged == ConsoleError(q) IN
         IF environment # "production"
           THEN Send(logged, [status |-> 500, kind |-> "", body |-> StackOf(q.err)])
           ELSE Send(logged, ApiErrorHandle(InternalError))

\* The error handling middleware.
ErrorMiddleware(q) ==
  IF q.err.cls = "ApiError"
    THEN LET sent == Send(q, ApiErrorHandle(q.err)) IN
         IF q.err.type = "INTERNAL" THEN ConsoleError(sent) ELSE sent
    ELSE LET logged == ConsoleError(q) IN
         IF environment = "development"
           THEN Send(logged, [status |-> 500, kind |-> "", body |-> StackOf(q.err)])
           ELSE Send(logged, ApiErrorHandle(InternalError))

\* Express's final handler, reached when no layer is left: 404 for a request
\* nobody answered, the error's status (500) for an error nobody handled.
FinalHandler(q) ==
  IF q.err.cls = "none"
    THEN Send(q, [status |-> 404, kind |-> "",
                  body |-> <<"Cannot ", q.method, " ">> \o OriginalUrl(q)])
    ELSE Send(q, [status |-> 500, kind |-> "", body |-> StackOf(q.err)])

\* The request walks the stack from layer i on until a layer answers it or
\* holds it (the limiter, a feature router).
RECURSIVE Walk(_, _)
Walk(q, i) ==
  LET j == NextLayer(q, i) IN
  IF j > Len(stack) THEN FinalHandler(q)
  ELSE
    LET l == stack[j]
        q1 == [q EXCEPT !.idx = j, !.trace = Append(@, l.name)]
    IN CASE l.name = "root" ->
              Send(q1, [status |-> 200, kind |-> "", body |-> <<"WELCOME TO RABBIT API">>])
         [] l.name = "requestIp" -> Walk([q1 EXCEPT !.clientIp = GetClientIp(q)], j + 1)
         [] l.name = "limiter" -> [q1 EXCEPT !.pc = "limiter"]
         [] l.name \in Transparent -> Walk(q1, j + 1)
         [] l.name = "health" ->
              Send(q1, [status |-> 200, kind |-> "", body |-> <<"Server is healthy and running">>])
         [] l.name \in Routers -> [q1 EXCEPT !.pc = "handler"]
         [] l.name = "static" ->
              IF q.method = "GET" /\ SubSeq(q.path, Len(l.path) + 1, Len(q.path)) \in PublicFiles
                THEN Send(q1, [status |-> 200, kind |-> "", body |-> <<"<file>">>])
                ELSE Walk(q1, j + 1)
         [] OTHER -> ErrorMiddleware(q1)

\* ---------------------------------------------------------------- limiter

NoWindow == [count |-> 0, resetTime |-> 0]

\* The window of a key is open while its reset time lies ahead.
Expired(w) == w.resetTime <= now

\* The hit is read and written back without the increment.
IncrementHitLost(w) ==
  IF w = NoWindow \/ Expired(w)
    THEN [count |-> 1, resetTime |-> now + windowMs]
    ELSE w

\* store.increment(key): a fresh window with one hit when the key has none or
\* its window is over, one more hit otherwise.
IncrementHit(w) ==
  IF w = NoWindow \/ Expired(w)
    THEN [count |-> 1, resetTime |-> now + windowMs]
    ELSE [w EXCEPT !.count = @ + 1]

\* The comparison is off by one.
WithinLimitOffByOne(totalHits) == totalHits <= max + 1

\* The limiter lets a request through when its hit is within the limit.
WithinLimit(totalHits) == totalHits <= max

\* handler: the message of the RateLimitError
LimitMessage ==
  <<"You exceeded the request limit. Allowed ", ToString(max), " requests per ",
    ToString(windowMs \div 60000), " minute.">>

\* ---------------------------------------------------------------- actions

\* The requests in flight that are at stage pc.
At(pc) == { q \in BagToSet(reqs) : q.pc = pc }

\* The window a counted request belongs to.
WindowOf(q) == <<KeyGenerator(q), q.win>>

\* The history keeps a window while it is the key's current one or a counted
\* request of it is still to be decided.
Prune(adm, rq, st) ==
  [ p \in { x \in DOMAIN adm :
              \/ st[x[1]].resetTime = x[2]
              \/ \E q \in BagToSet(rq) : q.pc = "limited" /\ WindowOf(q) = x } |-> adm[p] ]

\* Request q goes on as q2; when q2 is answered the exchange ends and is the
\* last one.
Settle(q, q2) ==
  /\ reqs' = (reqs (-) SetToBag({q})) (+) (IF q2.pc = "done" THEN EmptyBag ELSE SetToBag({q2}))
  /\ last' = IF q2.pc = "done" THEN q2 ELSE Idle

\* Module evaluation, top to bottom.  import "./database" starts the
\* database collaborator.
ImportDatabase ==
  /\ boot = "start"
  /\ boot' = "imported"
  /\ db' = "connecting"
  /\ UNCHANGED <<environment, stack, httpVars, rtVars>>

BootRoot ==
  /\ boot = "imported"
  /\ boot' = "root"
  /\ stack' = stack \o RootLayers
  /\ UNCHANGED <<environment, db, httpVars, rtVars>>

BootLimiter ==
  /\ boot = "root"
  /\ boot' = "limiter"
  /\ stack' = stack \o LimiterLayers
  /\ UNCHANGED <<environment, db, httpVars, rtVars>>

BootMiddlewares ==
  /\ boot = "limiter"
  /\ boot' = "middlewares"
  /\ stack' = stack \o MiddlewareLayers
  /\ UNCHANGED <<environment, db, httpVars, rtVars>>

BootRoutes ==
  /\ boot = "middlewares"
  /\ boot' = "routes"
  /\ stack' = stack \o RouteLayers
  /\ UNCHANGED <<environment, db, httpVars, rtVars>>

\* The hub is built but app.set("io", io) is left out.
BootSocketUnattached ==
  /\ boot = "routes"
  /\ boot' = "socket"
  /\ UNCHANGED <<environment, db, stack, httpVars, rtVars>>

\* new SocketServer(httpServer, ...); initSocketIo(io); app.set("io", io)
BootSocket ==
  /\ boot = "routes"
  /\ boot' = "socket"
  /\ io' = "hub"
  /\ UNCHANGED <<environment, db, stack, httpVars, sessions>>

BootErrorHandler ==
  /\ boot = "socket"
  /\ boot' = "errors"
  /\ stack' = stack \o ErrorLayers
  /\ UNCHANGED <<environment, db, httpVars, rtVars>>

\* httpServer.listen(port, ...)
Listen ==
  /\ boot = "errors"
  /\ boot' = "listening"
  /\ UNCHANGED <<environment, db, stack, httpVars, rtVars>>

\* A request comes in and runs down the stack to the first layer that holds it.
Accept(m, p, a) ==
  /\ boot = "listening"
  /\ BagCardinality(reqs) < MaxInFlight
  /\ store[KeyGenerator(NewRequest(m, p, a))].count < max + MaxOver
  /\ LET q == Walk(NewRequest(m, p, a), 1) IN
       /\ reqs' = reqs (+) (IF q.pc = "done" THEN EmptyBag ELSE SetToBag({q}))
       /\ last' = IF q.pc = "done" THEN q ELSE Idle
  /\ UNCHANGED <<procVars, rtVars, now, store, admitted>>

\* A request comes in while no other is in flight.
Serve(m, p, a) == reqs = EmptyBag /\ Accept(m, p, a)

\* The limiter counts the request on one counter for all keys.
IncrementAll(q) ==
  /\ q.pc = "limiter"
  /\ LET k == KeyGenerator(q)
         w == IncrementHit(store[k])
     IN /\ store' = [b \in Keys |-> w]
        /\ Settle(q, [q EXCEPT !.pc = "limited", !.totalHits = w.count, !.win = w.resetTime])
  /\ admitted' = Prune(admitted, reqs', store')
  /\ UNCHANGED <<procVars, rtVars, now>>

\* The limiter counts the request: one step, nothing runs in between.
Increment(q) ==
  /\ q.pc = "limiter"
  /\ LET k == KeyGenerator(q)
         w == IncrementHit(store[k])
     IN /\ store' = [store EXCEPT ![k] = w]
        /\ Settle(q, [q EXCEPT !.pc = "limited", !.totalHits = w.count, !.win = w.resetTime])
  /\ admitted' = Prune(admitted, reqs', store')
  /\ UNCHANGED <<procVars, rtVars, now>>

\* One more request admitted in window p.
Admit(adm, p) == (p :> (IF p \in DOMAIN adm THEN adm[p] + 1 ELSE 1)) @@ adm

\* The limiter decides: next() within the limit, handler -> next(error) above it.
Decide(q) ==
  /\ q.pc = "limited"
  /\ IF WithinLimit(q.totalHits)
       THEN /\ Settle(q, Walk(q, q.idx + 1))
            /\ admitted' = Admit(Prune(admitted, reqs, store), WindowOf(q))
       ELSE /\ Settle(q, Walk([q EXCEPT !.err = RateLimitError(LimitMessage)], q.idx + 1))
            /\ admitted' = Prune(admitted, reqs', store)
  /\ UNCHANGED <<procVars, rtVars, now, store>>

\* What a feature handler may forward.
Thrown ==
  { ApiErr(t, <<t>>) : t \in ErrorTypes \ {"RATE_LIMIT"} } \cup { PlainError(<<"db timeout">>) }

\* A feature handler completes the response.
HandlerResponds(q) ==
  /\ q.pc = "handler"
  /\ Settle(q, Send(q, [status |-> 200, kind |-> "", body |-> <<"<data>">>]))
  /\ UNCHANGED <<procVars, rtVars, now, store, admitted>>

\* A feature handler forwards an error: next(err).
HandlerForwards(q, e) ==
  /\ q.pc = "handler"
  /\ Settle(q, Walk([q EXCEPT !.err = e], q.idx + 1))
  /\ UNCHANGED <<procVars, rtVars, now, store, admitted>>

\* No route of the router takes the request: next().
HandlerPasses(q) ==
  /\ q.pc = "handler"
  /\ Settle(q, Walk(q, q.idx + 1))
  /\ UNCHANGED <<procVars, rtVars, now, store, admitted>>

\* Time passes.
Tick ==
  /\ now < Horizon
  /\ now' = now + TickMs
  /\ last' = Idle
  /\ UNCHANGED <<procVars, rtVars, store, admitted, reqs>>

\* The wall clock is set back (an adjustment of the system time): Date.now(),
\* which the limiter's store reads, returns an earlier time than before.  The
\* adjustment is taken between two requests.
SetBack ==
  /\ reqs = EmptyBag
  /\ now >= TickMs
  /\ now' = now - TickMs
  /\ admitted' = Prune(admitted, reqs, store)
  /\ last' = Idle
  /\ UNCHANGED <<procVars, rtVars, store, reqs>>

\* The store drops a record whose window is over.
Evict(k) ==
  /\ store[k] # NoWindow
  /\ Expired(store[k])
  /\ store' = [store EXCEPT ![k] = NoWindow]
  /\ admitted' = Prune(admitted, reqs, store')
  /\ last' = Idle
  /\ UNCHANGED <<procVars, rtVars, now, reqs>>

\* --------------------------------------------------------------- realtime

SessionIds == 1..MaxSessions

NoSession ==
  [state |-> "none", origin |-> NULL, transport |-> "", allowOrigin |-> "",
   timer |-> "", left |-> 0, silent |-> FALSE, closed |-> ""]

\* app.use(cors({ origin: corsUrl, credentials: true, optionsSuccessStatus: 200 }))
HttpCors == [origin |-> corsUrl, credentials |-> TRUE]

\* new SocketServer(httpServer, { ..., cors: { origin: corsUrl, credentials: true } })
HubCors == [origin |-> corsUrl, credentials |-> TRUE]

\* The Access-Control-Allow-Origin header the cors layer puts on the response
\* to a request of origin o: the configured origin, whatever o is.
AllowOriginHeader(o) == HttpCors.origin

\* Whether a page of origin o is let through by the HTTP cors layer: the
\* header names its origin.
HttpAccepts(o) == AllowOriginHeader(o) = o

\* The hub's cors option { origin: corsUrl, credentials: true } sets the
\* response headers of the HTTP transport; it does not look at the request's
\* origin, and a websocket upgrade carries no such headers.
CorsHeader(transport) == IF transport = "polling" THEN corsUrl ELSE ""

\* The ping goes out and no timer waits for the pong.
AwaitPongUnarmed(x) == [x EXCEPT !.timer = "none", !.left = 0]

\* The session after the hub sent a ping: the pong is due within pingTimeout.
AwaitPong(x) == [x EXCEPT !.timer = "pingTimeout", !.left = pingTimeout]

\* The session waiting for the next ping.
AwaitPing(x) == [x EXCEPT !.timer = "pingInterval", !.left = pingInterval]

\* A connection attempt reaches the hub: the session is set up.
Handshake(s, o, t) ==
  /\ boot = "listening"
  /\ io = "hub"
  /\ sessions[s].state = "none"
  /\ sessions' = [sessions EXCEPT ![s] =
       AwaitPing([NoSession EXCEPT !.state = "open", !.origin = o, !.transport = t,
                                   !.allowOrigin = CorsHeader(t)])]
  /\ UNCHANGED <<procVars, httpVars, io>>

\* The ping interval is over: the hub pings the client.
Ping(s) ==
  /\ sessions[s].state = "open"
  /\ sessions[s].timer = "pingInterval"
  /\ sessions[s].left = 0
  /\ sessions' = [sessions EXCEPT ![s] = AwaitPong(@)]
  /\ UNCHANGED <<procVars, httpVars, io>>

\* The client answers the ping in time.
Pong(s) ==
  /\ sessions[s].state = "open"
  /\ sessions[s].timer = "pingTimeout"
  /\ ~sessions[s].silent
  /\ sessions' = [sessions EXCEPT ![s] = AwaitPing(@)]
  /\ UNCHANGED <<procVars, httpVars, io>>

\* No pong within pingTimeout: the hub closes the session and drops it.
PingTimeout(s) ==
  /\ sessions[s].state = "open"
  /\ sessions[s].timer = "pingTimeout"
  /\ sessions[s].left = 0
  /\ sessions' = [sessions EXCEPT ![s] = [NoSession EXCEPT !.closed = "ping timeout"]]
  /\ UNCHANGED <<procVars, httpVars, io>>

\* The client stops giving any sign of life, without closing the connection.
GoSilent(s) ==
  /\ sessions[s].state = "open"
  /\ ~sessions[s].silent
  /\ sessions' = [sessions EXCEPT ![s].silent = TRUE]
  /\ UNCHANGED <<procVars, httpVars, io>>

\* The client closes the connection.
Disconnect(s) ==
  /\ sessions[s].state = "open"
  /\ ~sessions[s].silent
  /\ sessions' = [sessions EXCEPT ![s] = [NoSession EXCEPT !.closed = "transport close"]]
  /\ UNCHANGED <<procVars, httpVars, io>>

Open == { s \in SessionIds : sessions[s].state = "open" }

\* Time passes for the hub's timers; a timer that is due fires first.
Elapse ==
  /\ Open # {}
  /\ \A s \in Open : sessions[s].left > 0
  /\ sessions' = [s \in SessionIds |->
       IF s \in Open
         THEN [sessions[s] EXCEPT !.left = IF @ > TickMs THEN @ - TickMs ELSE 0]
         ELSE sessions[s]]
  /\ UNCHANGED <<procVars, httpVars, io>>

\* ---------------------------------------------------------------- process

\* The database collaborator finishes initializing, some time after the import.
DbConnected ==
  /\ boot # "exited"
  /\ db = "connecting"
  /\ db' = "ready"
  /\ UNCHANGED <<environment, boot, stack, httpVars, rtVars>>

\* The database collaborator fails to initialize.
DbFails ==
  /\ boot # "exited"
  /\ db = "connecting"
  /\ db' = "failed"
  /\ UNCHANGED <<environment, boot, stack, httpVars, rtVars>>

\* The request as the client sees it when the process is gone: no response.
Aborted(q) == [q EXCEPT !.pc = "aborted"]

\* The process is told to stop.  app.ts installs no handler and never closes
\* the server: the process ends at once, with whatever is in flight.
Terminate ==
  /\ boot = "listening"
  /\ boot' = "exited"
  /\ reqs' = BagOfAll(Aborted, reqs)
  /\ sessions' = [s \in SessionIds |->
       IF sessions[s].state = "open"
         THEN [NoSession EXCEPT !.closed = "process exit"]
         ELSE sessions[s]]
  /\ last' = Idle
  /\ UNCHANGED <<environment, db, stack, now, store, admitted, io>>

\* --------------------------------------------------------- specifications

InitHttp ==
  /\ sessions = [s \in SessionIds |-> NoSession]
  /\ now = 0
  /\ store = [k \in Keys |-> NoWindow]
  /\ admitted = [p \in {} |-> 0]
  /\ reqs = EmptyBag
  /\ last = Idle

\* The process starts.
Init ==
  /\ environment \in Environments
  /\ boot = "start"
  /\ db = "unloaded"
  /\ stack = << >>
  /\ io = "unset"
  /\ InitHttp

\* The application as app.ts builds it, serving one request at a time.
Next ==
  \/ ImportDatabase
  \/ BootRoot
  \/ BootLimiter
  \/ BootMiddlewares
  \/ BootRoutes
  \/ BootSocket
  \/ BootErrorHandler
  \/ Listen
  \/ \E i \in Inputs, a \in Remotes : Serve(i[1], i[2], a)
  \/ \E q \in BagToSet(reqs) : Increment(q)
  \/ \E q \in BagToSet(reqs) : Decide(q)
  \/ \E q \in BagToSet(reqs) : HandlerResponds(q)
  \/ \E q \in BagToSet(reqs), e \in Thrown : HandlerForwards(q, e)
  \/ \E q \in BagToSet(reqs) : HandlerPasses(q)

Spec == Init /\ [][Next]_vars

\* The stack once module evaluation is through.
AppStack == RootLayers \o LimiterLayers \o MiddlewareLayers \o RouteLayers \o ErrorLayers

\* The application built and listening.
InitServing ==
  /\ environment = "production"
  /\ boot = "listening"
  /\ db = "ready"
  /\ stack = AppStack
  /\ io = "hub"
  /\ InitHttp

\* The limiter under concurrent requests and passing time.  The limiter is
\* mounted on every path, so one route stands for all it sees.
NextLimiter ==
  \/ \E a \in Callers : Accept("GET", <<"health">>, a)
  \/ \E q \in BagToSet(reqs) : Increment(q)
  \/ \E q \in BagToSet(reqs) : Decide(q)
  \/ Tick
  \/ \E k \in Keys : Evict(k)

SpecLimiter == InitServing /\ [][NextLimiter]_vars

\* The limiter under a wall clock that is also set back, one request at a
\* time.
NextSkew ==
  \/ \E a \in Remotes : Serve("GET", <<"health">>, a)
  \/ \E q \in BagToSet(reqs) : Increment(q)
  \/ \E q \in BagToSet(reqs) : Decide(q)
  \/ Tick
  \/ SetBack
  \/ \E k \in Keys : Evict(k)

SpecSkew == InitServing /\ [][NextSkew]_vars

\* The limiter under concurrent requests of clients whose IP address cannot
\* be resolved.
NextShared ==
  \/ \E a \in Unresolved : Accept("GET", <<"health">>, a)
  \/ \E q \in BagToSet(reqs) : Increment(q)
  \/ \E q \in BagToSet(reqs) : Decide(q)
  \/ Tick
  \/ \E k \in Keys : Evict(k)

SpecShared == InitServing /\ [][NextShared]_vars

\* The life of the process: module evaluation, the database collaborator,
\* traffic, the end.
NextLife ==
  \/ ImportDatabase
  \/ BootRoot
  \/ BootLimiter
  \/ BootMiddlewares
  \/ BootRoutes
  \/ BootSocket
  \/ BootErrorHandler
  \/ Listen
  \/ DbConnected
  \/ DbFails
  \/ \E a \in Remotes : Serve("POST", <<"auth", "login">>, a)
  \/ \E q \in BagToSet(reqs) : Increment(q)
  \/ \E q \in BagToSet(reqs) : Decide(q)
  \/ \E q \in BagToSet(reqs) : HandlerResponds(q)
  \/ \E s \in SessionIds : Handshake(s, corsUrl, "websocket")
  \/ \E s \in SessionIds : Disconnect(s)
  \/ Terminate

\* The process starts, configured for production.
InitLife ==
  /\ environment = "production"
  /\ boot = "start"
  /\ db = "unloaded"
  /\ stack = << >>
  /\ io = "unset"
  /\ InitHttp

SpecLife == InitLife /\ [][NextLife]_vars

\* The realtime hub.
NextRealtime ==
  \/ \E s \in SessionIds, o \in Origins, t \in Transports : Handshake(s, o, t)
  \/ \E s \in SessionIds : Ping(s)
  \/ \E s \in SessionIds : Pong(s)
  \/ \E s \in SessionIds : PingTimeout(s)
  \/ \E s \in SessionIds : GoSilent(s)
  \/ \E s \in SessionIds : Disconnect(s)
  \/ Elapse

\* The event loop lets time pass and runs every timer that is due.
SpecRealtime ==
  /\ InitServing
  /\ [][NextRealtime]_vars
  /\ WF_vars(Elapse)
  /\ \A s \in SessionIds : WF_vars(Ping(s)) /\ WF_vars(PingTimeout(s))

\* ----------------------------------------------------------------- claims

\* Whether request q went through layer (or event) n.
Visited(q, n) == \E i \in 1..Len(q.trace) : q.trace[i] = n

\* How many responses were sent for q.
Sends(q) == Cardinality({ i \in 1..Len(q.trace) : q.trace[i] = "send" })

\* The limiter decides counted request q in this step.
Decided(q) == q.pc = "limited" /\ CopiesIn(q, reqs') < CopiesIn(q, reqs)

\* The limiter counts request q in this step.
Counted(q) == q.pc = "limiter" /\ CopiesIn(q, reqs') < CopiesIn(q, reqs)

\* C1: for every key and every interleaving of the requests in flight, the
\* number of requests the limiter admits within one window of the key never
\* exceeds max.
C1_NoOverAdmission == \A p \in DOMAIN admitted : admitted[p] <= max

\* C1 witness: max requests of a window are admitted while one more request,
\* counted in the same window, is still in flight.
C1_Witness ==
  \E q \in At("limited") :
    /\ q.totalHits = max + 1
    /\ WindowOf(q) \in DOMAIN admitted
    /\ admitted[WindowOf(q)] = max

\* C2: once max requests of key k are admitted within a window, the next
\* request of k in that window is rejected; a request of k counted after the
\* window duration has elapsed restarts k's count at 1 and is admitted.
C2_WindowFillsAndRestarts ==
  [][ \A q \in BagToSet(reqs) :
        /\ ( /\ Decided(q)
             /\ WindowOf(q) \in DOMAIN admitted
             /\ admitted[WindowOf(q)] >= max )
           => (last'.resp.status = 429 /\ last'.err.type = "RATE_LIMIT")
        /\ ( /\ Counted(q)
             /\ store[KeyGenerator(q)] # NoWindow
             /\ now - (store[KeyGenerator(q)].resetTime - windowMs) >= windowMs )
           => ( /\ store'[KeyGenerator(q)].count = 1
                /\ \E q2 \in BagToSet(reqs') :
                     q2.pc = "limited" /\ q2.remote = q.remote /\ q2.totalHits = 1 )
        /\ (Decided(q) /\ q.totalHits = 1)
           => (last'.resp.status # 429 /\ last'.err = NoErr)
    ]_vars

\* C2 witness: a request of an elapsed window has just been rejected while a
\* later request of the same key opened a new window with count 1.
C2_Witness ==
  /\ last.resp.status = 429
  /\ \E q \in At("limited") :
       /\ KeyGenerator(q) = KeyGenerator(last)
       /\ q.totalHits = 1
       /\ q.win > last.win
       /\ store[KeyGenerator(q)].count = 1

\* The status the error table pairs with each kind.
KindStatus ==
  [BAD_REQUEST |-> 400, UNAUTHORIZED |-> 401, FORBIDDEN |-> 403,
   NOT_FOUND |-> 404, RATE_LIMIT |-> 429, INTERNAL |-> 500]

\* C3: an error with a recognized kind is answered with the status of that
\* kind; an error that is not an ApiError is answered with status 500 and
\* kind INTERNAL, its message is not in the body in production mode, and the
\* log holds the message, the request path and the method.
C3_ErrorStageTotal ==
  last.pc = "done" =>
    /\ last.err.cls = "ApiError" =>
         /\ last.resp.status = KindStatus[last.err.type]
         /\ last.resp.kind = last.err.type
    /\ last.err.cls = "Error" =>
         /\ last.resp.status = 500
         /\ last.resp.kind = "INTERNAL"
         /\ environment = "production" => ~Contains(last.resp.body, last.err.message)
         /\ Contains(last.log, last.err.message)
         /\ Contains(last.log, last.path)
         /\ Contains(last.log, <<last.method>>)

\* C4: a request the limiter rejects is answered in the same step, exactly
\* once, with status 429, kind RATE_LIMIT and a message stating
\* "<max> requests per <windowMs/60000> minute", and reaches no route handler.
C4_RejectionAnswered ==
  [][ \A q \in BagToSet(reqs) :
        (Decided(q) /\ q.totalHits > max) =>
          /\ last'.pc = "done"
          /\ last'.remote = q.remote
          /\ Sends(last') = 1
          /\ last'.resp.status = 429
          /\ last'.resp.kind = "RATE_LIMIT"
          /\ Contains(last'.resp.body, <<ToString(max), " requests per ", "1", " minute.">>)
          /\ Visited(last', "error")
          /\ \A n \in {"root", "health", "static"} \cup Routers : ~Visited(last', n)
    ]_vars

\* C4 witness: a request has been rejected by the limiter and answered 429.
C4_Witness ==
  /\ last.pc = "done"
  /\ last.totalHits > max
  /\ last.resp.status = 429

\* C5: every request that is answered, whatever its path, had its client
\* identity resolved and was counted by the limiter before.
C5_LimiterSeesEveryRequest ==
  last.pc = "done" => (Visited(last, "requestIp") /\ Visited(last, "limiter"))

\* A path under none of the registered prefixes.
Unregistered(p) ==
  /\ p # << >>
  /\ p # <<"health">>
  /\ \A pre \in {<<"auth">>, <<"api", "chat">>, <<"api", "messages">>, <<"public">>} :
       ~IsPrefix(pre, p)

\* C6: a request whose path matches no registered prefix ends in the error
\* stage and is answered with status 404 and kind NOT_FOUND.
C6_UnmatchedIsNotFound ==
  (last.pc = "done" /\ Unregistered(last.path) /\ last.err.type # "RATE_LIMIT") =>
    /\ Visited(last, "error")
    /\ last.resp.status = 404
    /\ last.resp.kind = "NOT_FOUND"

\* C7: shutdown is graceful: when the process has ended, every request that
\* was in flight has been answered and every session was closed by the hub
\* before the listener went away.
C7_GracefulShutdown ==
  boot = "exited" =>
    /\ At("aborted") = {}
    /\ \A s \in SessionIds : sessions[s].closed # "process exit"

\* C8: no request is accepted before the database collaborator has finished
\* initializing, and none at all when its initialization failed.
C8_DatabaseBeforeTraffic ==
  (reqs # EmptyBag \/ last.pc = "done") => db = "ready"

\* C9: a realtime connection attempt whose origin is not the allowed origin
\* never becomes an established session, whatever its transport.
C9_ForeignOriginRefused ==
  \A s \in SessionIds : sessions[s].state = "open" => sessions[s].origin = corsUrl

\* C10: every session whose client has stopped giving liveness signals is
\* eventually disconnected and removed from the hub.
C10_SilentSessionClosed ==
  \A s \in SessionIds :
    (sessions[s].state = "open" /\ sessions[s].silent) ~> (sessions[s].state = "none")

\* C10 witness: the hub has dropped a session because no pong came within
\* pingTimeout.
C10_Witness ==
  \E s \in SessionIds : sessions[s].state = "none" /\ sessions[s].closed = "ping timeout"

\* C11: for every key, the count of its record in the store is at most max
\* while the record's window is open, also after requests that were rejected
\* in that window.
C11_CountWithinMax ==
  \A k \in Keys : (store[k] # NoWindow /\ ~Expired(store[k])) => store[k].count <= max

\* The positions of event n in the trace of request q.
Positions(q, n) == { i \in 1..Len(q.trace) : q.trace[i] = n }

\* C12: for an INTERNAL error, be it an ApiError of type INTERNAL or an error
\* that is no ApiError, the log line is written before the response of the
\* request is sent, and never after it.
C12_LogBeforeResponse ==
  (last.pc = "done" /\ (last.err.cls = "Error" \/ last.err.type = "INTERNAL")) =>
    /\ Positions(last, "log") # {}
    /\ \A i \in Positions(last, "log"), j \in Positions(last, "send") : i < j

\* C13: every response with a status outside 2xx, on whatever path it was
\* produced, is the error envelope: it carries a kind of the enumeration and a
\* message.
C13_ErrorEnvelopeEverywhere ==
  (last.pc = "done" /\ last.resp.status \notin 200..299) =>
    /\ last.resp.kind \in ErrorTypes
    /\ last.resp.body # << >>

\* C14: a response holding the raw stack of the error is sent only when the
\* environment mode is "development"; in every other mode, unset included, an
\* error that is no ApiError is answered with the generic INTERNAL response;
\* in both cases exactly one response is sent for the request.
C14_StackOnlyInDevelopment ==
  /\ (last.pc = "done" /\ last.err # NoErr /\ Contains(last.resp.body, StackOf(last.err)))
       => environment = "development"
  /\ (last.pc = "done" /\ last.err.cls = "Error") =>
       /\ Sends(last) = 1
       /\ environment # "development" =>
            /\ last.resp = ApiErrorHandle(InternalError)
            /\ last.resp.kind = "INTERNAL"
            /\ last.resp.status = 500

\* C14 witness: with the environment mode unset, an error that is no ApiError
\* has been answered once, with the generic INTERNAL response.
C14_Witness ==
  /\ environment = ""
  /\ last.pc = "done"
  /\ last.err.cls = "Error"
  /\ Sends(last) = 1
  /\ last.resp = ApiErrorHandle(InternalError)

\* The time at which the window of record w started.
WindowStart(w) == w.resetTime - windowMs

\* C15: a request of key k counted at a time before the start of k's recorded
\* window (the clock was set back) starts a new window: the count of k is 1
\* afterwards, the request holds hit number 1, and a request with hit number
\* 1 is admitted.
C15_BackwardClockStartsWindow ==
  [][ \A q \in BagToSet(reqs) :
        /\ ( /\ Counted(q)
             /\ store[KeyGenerator(q)] # NoWindow
             /\ now < WindowStart(store[KeyGenerator(q)]) )
           => ( /\ store'[KeyGenerator(q)].count = 1
                /\ \E q2 \in BagToSet(reqs') :
                     q2.pc = "limited" /\ q2.remote = q.remote /\ q2.totalHits = 1 )
        /\ (Decided(q) /\ now < WindowStart(store[KeyGenerator(q)]))
           => (last'.resp.status # 429 /\ last'.err = NoErr)
    ]_vars

\* C16: the key of a request whose client IP cannot be resolved is the empty
\* string, whatever is seen of the client; the requests of all such clients
\* are counted by one counter, each hit with a number of its own, and the
\* limiter admits at most max of them, all clients together, per window.
C16_UnresolvedShareOneCounter ==
  /\ \A q \in BagToSet(reqs) \cup {last} :
       (q.pc # "idle" /\ GetClientIp(q) = NULL) => KeyGenerator(q) = ""
  /\ \A q1, q2 \in At("limited") :
       ( /\ GetClientIp(q1) = NULL
         /\ GetClientIp(q2) = NULL
         /\ q1 # q2
         /\ q1.win = q2.win )
       => q1.totalHits # q2.totalHits
  /\ \A p \in DOMAIN admitted : p[1] = "" => admitted[p] <= max

\* C16 witness: a request of one unresolved client has been rejected while a
\* request of another unresolved client holds one of the max admissible hits
\* of the same window.
C16_Witness ==
  /\ last.pc = "done"
  /\ last.resp.status = 429
  /\ GetClientIp(last) = NULL
  /\ \E q \in At("limited") :
       /\ GetClientIp(q) = NULL
       /\ q.remote # last.remote
       /\ q.win = last.win
       /\ q.totalHits <= max

\* Whether the page behind established session x is let through to the hub:
\* over polling the browser wants the header to name the page's origin, a
\* websocket carries no such header and nothing looks at the origin.
HubAccepts(x) == x.transport = "polling" => x.allowOrigin = x.origin

\* C17: the HTTP cors layer and the realtime hub are configured with the same
\* allowed origin and both allow credentials, and in every state the origin of
\* an established session is accepted by the hub if and only if the HTTP
\* layer accepts it.
C17_SameOriginPolicy ==
  /\ HttpCors = HubCors
  /\ HttpCors.origin = corsUrl
  /\ HttpCors.credentials
  /\ \A s \in SessionIds :
       sessions[s].state = "open" =>
         (HubAccepts(sessions[s]) <=> HttpAccepts(sessions[s].origin))

\* C18: the hub handle is attached to the application state before the
\* listener starts: whenever the server is listening, and whenever a request
\* is with a feature handler, the handle is defined.
C18_HandleBeforeListen ==
  (boot = "listening" \/ At("handler") # {}) => io = "hub"

\* C18 witness: a request is with a feature handler and the handle is defined.
C18_Witness ==
  /\ boot = "listening"
  /\ At("handler") # {}
  /\ io = "hub"

\* C19: the counters are independent per key: a step of a request of key a,
\* its arrival, its counting or its decision, leaves the record of every
\* other key b as it was, and the hit number a counted request gets is taken
\* from the record of its own key alone.
C19_KeysIndependent ==
  [][ /\ \A q \in BagToSet(reqs) :
           (Counted(q) \/ Decided(q)) =>
             \A b \in Keys \ {KeyGenerator(q)} : store'[b] = store[b]
      /\ \A q \in BagToSet(reqs) :
           Counted(q) =>
             \E q2 \in BagToSet(reqs') :
               /\ q2.pc = "limited"
               /\ q2.remote = q.remote
               /\ q2.totalHits = IF store[KeyGenerator(q)] = NoWindow \/ Expired(store[KeyGenerator(q)])
                                   THEN 1
                                   ELSE store[KeyGenerator(q)].count + 1
      /\ BagCardinality(reqs') > BagCardinality(reqs) => store' = store
    ]_vars

\* C19 witness: a request of one key has just been admitted with hit number 1
\* while the open window of the other key holds more than max hits.
C19_Witness ==
  /\ last.pc = "done"
  /\ last.resp.status = 200
  /\ last.totalHits = 1
  /\ \E b \in Keys \ {KeyGenerator(last)} :
       /\ store[b].count > max
       /\ ~Expired(store[b])
       /\ store[KeyGenerator(last)].resetTime = store[b].resetTime

====
